---- MODULE Spec2Model ----
(***************************************************************************)
(* A model of the restaurant-booking agent: its request adapters and its   *)
(* chat server.                                                            *)
(*                                                                         *)
(*   agent.py                       RestaurantBookingAgent, /chat, main    *)
(*   langgraph/utils.py             value parsers, handle_api_error        *)
(*   langgraph/tools.py             the five *_tool adapters (params dict) *)
(*   restaurant_langgraph/tools.py  the five typed adapters                *)
(*   clients/restaurant_api.py      RestaurantAPI, the HTTP client         *)
(*                                                                         *)
(* Python values are tagged records [t, s, n]; text is a sequence of       *)
(* string pieces (caller-supplied text is spelled one character per piece, *)
(* so that the parsers can look at it).  Evaluating a Python expression    *)
(* yields a value or a raised exception.  The booking API is a stub: the   *)
(* outcome of the one HTTP exchange a call may make is an input of the     *)
(* call.                                                                   *)
(*                                                                         *)
(* The adapters of restaurant_langgraph/tools.py are modelled at the       *)
(* function wrapped by handle_api_error; the argument schema that          *)
(* langchain's @tool derives from the signature is library code and is not *)
(* modelled.  restaurant_langgraph/utils.py is not among the sources: the  *)
(* only handle_api_error of the repository, langgraph/utils.py, is used    *)
(* for both tool modules.                                                  *)
(*                                                                         *)
(* Spec is the specification of the adapters and parsers, AgentSpec the    *)
(* one of agent.py: the start of the process and the /chat exchanges.  The *)
(* language model behind agent_executor.ainvoke is not modelled: what it   *)
(* answers, or the exception it raises, is an input of each exchange.      *)
(***************************************************************************)
EXTENDS Integers, Sequences, FiniteSets, TLC

VARIABLES pc, call, result, sent, py311

\* agent.py: the GOOGLE_API_KEY of the environment, the position of the process,
\* the way its start ended, and the /chat exchanges completed so far
VARIABLES env, server, exit, chats

toolVars == <<pc, call, result, sent, py311>>
agentVars == <<env, server, exit, chats>>
vars == <<pc, call, result, sent, py311, env, server, exit, chats>>

\* Integer arguments are drawn from -1 .. MaxInt.
MaxInt == 6

-----------------------------------------------------------------------------
(* Python values                                                           *)

Absent == [t |-> "absent", s |-> <<>>, n |-> 0]
None == [t |-> "none", s |-> <<>>, n |-> 0]
StrV(s) == [t |-> "str", s |-> s, n |-> 0]
IntV(n) == [t |-> "int", s |-> <<>>, n |-> n]
\* a float with the value k/2
FloatV(k) == [t |-> "float", s |-> <<>>, n |-> k]
BoolV(b) == [t |-> "bool", s |-> <<>>, n |-> IF b THEN 1 ELSE 0]
\* datetime.date and datetime.time, packed as yyyymmdd and hhmmss
Date(y, m, d) == [t |-> "date", s |-> <<>>, n |-> y * 10000 + m * 100 + d]
Time(h, m, sec) == [t |-> "time", s |-> <<>>, n |-> h * 10000 + m * 100 + sec]

\* Python truth value testing (bool(x)); time(0, 0) is true since Python 3.5
Truthy(v) ==
    CASE v.t \in {"absent", "none"} -> FALSE
      [] v.t = "str" -> v.s # <<>>
      [] v.t \in {"int", "float", "bool"} -> v.n # 0
      [] OTHER -> TRUE

\* float -> int truncates toward zero
Trunc(k) == IF k >= 0 THEN k \div 2 ELSE -((-k) \div 2)

Digits == {"0", "1", "2", "3", "4", "5", "6", "7", "8", "9"}

DigitVal(c) ==
    CASE c = "0" -> 0 [] c = "1" -> 1 [] c = "2" -> 2 [] c = "3" -> 3
      [] c = "4" -> 4 [] c = "5" -> 5 [] c = "6" -> 6 [] c = "7" -> 7
      [] c = "8" -> 8 [] c = "9" -> 9

DigitChar(d) ==
    CASE d = 0 -> "0" [] d = 1 -> "1" [] d = 2 -> "2" [] d = 3 -> "3"
      [] d = 4 -> "4" [] d = 5 -> "5" [] d = 6 -> "6" [] d = 7 -> "7"
      [] d = 8 -> "8" [] d = 9 -> "9"

AllDigits(s) == \A i \in 1..Len(s) : s[i] \in Digits

RECURSIVE DigitsVal(_)
DigitsVal(s) ==
    IF s = <<>> THEN 0
    ELSE DigitsVal(SubSeq(s, 1, Len(s) - 1)) * 10 + DigitVal(s[Len(s)])

RECURSIVE NatText(_)
NatText(n) ==
    IF n < 10 THEN <<DigitChar(n)>>
    ELSE NatText(n \div 10) \o <<DigitChar(n % 10)>>

IntText(n) == IF n < 0 THEN <<"-">> \o NatText(-n) ELSE NatText(n)

\* two-digit, zero-padded (%m, %d, %H, %M, %S)
Pad2(n) == <<DigitChar(n \div 10), DigitChar(n % 10)>>

\* four-digit, zero-padded (%Y)
Pad4(n) == Pad2(n \div 100) \o Pad2(n % 100)

\* visit_date.strftime('%Y-%m-%d')
strftime_date(v) ==
    Pad4(v.n \div 10000) \o <<"-">> \o Pad2((v.n \div 100) % 100)
        \o <<"-">> \o Pad2(v.n % 100)

\* visit_time.strftime('%H:%M:%S')
strftime_time(v) ==
    Pad2(v.n \div 10000) \o <<":">> \o Pad2((v.n \div 100) % 100)
        \o <<":">> \o Pad2(v.n % 100)

\* str(x), as the f-strings apply it
PyStr(v) ==
    CASE v.t = "none" -> <<"None">>
      [] v.t = "str" -> v.s
      [] v.t = "int" -> IntText(v.n)
      [] v.t = "float" ->
            (IF v.n < 0 THEN <<"-">> ELSE <<>>)
                \o NatText((IF v.n < 0 THEN -v.n ELSE v.n) \div 2)
                \o <<".", IF v.n % 2 = 0 THEN "0" ELSE "5">>
      [] v.t = "bool" -> IF v.n = 1 THEN <<"True">> ELSE <<"False">>
      [] v.t = "date" -> strftime_date(v)
      [] v.t = "time" -> strftime_time(v)
      [] OTHER -> <<"?">>

\* type(x).__name__
TypeName(v) ==
    CASE v.t = "none" -> "NoneType"
      [] v.t = "bool" -> "bool"
      [] v.t = "int" -> "int"
      [] v.t = "float" -> "float"
      [] v.t = "str" -> "str"
      [] OTHER -> v.t

-----------------------------------------------------------------------------
(* Exceptions and evaluation results                                       *)

NoExc == [type |-> "", msg |-> <<>>, hasResp |-> FALSE, status |-> 0, body |-> ""]

Exc(type, msg) ==
    [type |-> type, msg |-> msg, hasResp |-> FALSE, status |-> 0, body |-> ""]

\* requests.RequestException and its subclasses (requests.JSONDecodeError is one
\* since requests 2.27)
RequestExceptionTypes == {"HTTPError", "ConnectionError", "Timeout", "JSONDecodeError"}

\* ValueError and its subclasses
ValueErrorTypes == {"ValueError", "JSONDecodeError"}

EOk(v) == [ok |-> TRUE, v |-> v, exc |-> NoExc]
ERaise(e) == [ok |-> FALSE, v |-> None, exc |-> e]

-----------------------------------------------------------------------------
(* Built-ins the parsers rest on                                           *)

RECURSIVE LStrip(_)
LStrip(s) == IF s # <<>> /\ s[1] = " " THEN LStrip(Tail(s)) ELSE s

RECURSIVE RStrip(_)
RStrip(s) ==
    IF s # <<>> /\ s[Len(s)] = " " THEN RStrip(SubSeq(s, 1, Len(s) - 1)) ELSE s

\* int(x)
py_int(v) ==
    CASE v.t \in {"int", "bool"} -> EOk(IntV(v.n))
      [] v.t = "float" -> EOk(IntV(Trunc(v.n)))
      [] v.t = "str" ->
            LET b == RStrip(LStrip(v.s))
                neg == b # <<>> /\ b[1] = "-"
                d == IF b # <<>> /\ b[1] \in {"-", "+"} THEN Tail(b) ELSE b
            IN  IF d # <<>> /\ AllDigits(d)
                THEN EOk(IntV(IF neg THEN -DigitsVal(d) ELSE DigitsVal(d)))
                ELSE ERaise(Exc("ValueError",
                        <<"invalid literal for int() with base 10: '">> \o v.s \o <<"'">>))
      [] OTHER ->
            ERaise(Exc("TypeError",
                <<"int() argument must be a string, a bytes-like object or a real number, not '",
                  TypeName(v), "'">>))

IsLeap(y) == (y % 4 = 0 /\ y % 100 # 0) \/ y % 400 = 0

DaysInMonth(y, m) ==
    IF m = 2 THEN (IF IsLeap(y) THEN 29 ELSE 28)
    ELSE IF m \in {4, 6, 9, 11} THEN 30 ELSE 31

\* date(y, m, d): the constructor's range checks
MakeDate(y, m, d) ==
    IF y < 1 THEN ERaise(Exc("ValueError", <<"year ", "0", " is out of range">>))
    ELSE IF m \notin 1..12 THEN ERaise(Exc("ValueError", <<"month must be in 1..12">>))
    ELSE IF d \notin 1..DaysInMonth(y, m)
    THEN ERaise(Exc("ValueError", <<"day is out of range for month">>))
    ELSE EOk(Date(y, m, d))

InvalidIso(s) ==
    ERaise(Exc("ValueError", <<"Invalid isoformat string: '">> \o s \o <<"'">>))

\* date.fromisoformat(x): YYYY-MM-DD; from Python 3.11 also the basic form
\* YYYYMMDD (the week forms of 3.11 are outside the texts the model draws)
date_fromisoformat(v) ==
    IF v.t # "str"
    THEN ERaise(Exc("TypeError", <<"fromisoformat: argument must be str">>))
    ELSE LET s == v.s IN
         IF Len(s) = 10 /\ s[5] = "-" /\ s[8] = "-"
            /\ AllDigits(SubSeq(s, 1, 4)) /\ AllDigits(SubSeq(s, 6, 7))
            /\ AllDigits(SubSeq(s, 9, 10))
         THEN MakeDate(DigitsVal(SubSeq(s, 1, 4)), DigitsVal(SubSeq(s, 6, 7)),
                       DigitsVal(SubSeq(s, 9, 10)))
         ELSE IF py311 /\ Len(s) = 8 /\ AllDigits(s)
         THEN MakeDate(DigitsVal(SubSeq(s, 1, 4)), DigitsVal(SubSeq(s, 5, 6)),
                       DigitsVal(SubSeq(s, 7, 8)))
         ELSE InvalidIso(s)

\* time(h, m, s): the constructor's range checks
MakeTime(h, m, sec) ==
    IF h > 23 THEN ERaise(Exc("ValueError", <<"hour must be in 0..23">>))
    ELSE IF m > 59 THEN ERaise(Exc("ValueError", <<"minute must be in 0..59">>))
    ELSE IF sec > 59 THEN ERaise(Exc("ValueError", <<"second must be in 0..59">>))
    ELSE EOk(Time(h, m, sec))

\* time.fromisoformat(x): HH[:MM[:SS]]; from Python 3.11 also HHMM, HHMMSS and a
\* leading T (fractions and offsets are outside the texts the model draws)
time_fromisoformat(v) ==
    IF v.t # "str"
    THEN ERaise(Exc("TypeError", <<"fromisoformat: argument must be str">>))
    ELSE LET s == IF py311 /\ v.s # <<>> /\ v.s[1] = "T" THEN Tail(v.s) ELSE v.s
             D(i) == DigitsVal(SubSeq(s, i, i + 1))
             Dig(i) == AllDigits(SubSeq(s, i, i + 1))
         IN
         IF Len(s) = 2 /\ Dig(1) THEN MakeTime(D(1), 0, 0)
         ELSE IF Len(s) = 5 /\ s[3] = ":" /\ Dig(1) /\ Dig(4)
         THEN MakeTime(D(1), D(4), 0)
         ELSE IF Len(s) = 8 /\ s[3] = ":" /\ s[6] = ":" /\ Dig(1) /\ Dig(4) /\ Dig(7)
         THEN MakeTime(D(1), D(4), D(7))
         ELSE IF py311 /\ Len(s) = 4 /\ AllDigits(s) THEN MakeTime(D(1), D(3), 0)
         ELSE IF py311 /\ Len(s) = 6 /\ AllDigits(s) THEN MakeTime(D(1), D(3), D(5))
         ELSE InvalidIso(v.s)

\* str.lower() on the letters the boolean words use
LowerChar(c) ==
    CASE c = "T" -> "t" [] c = "R" -> "r" [] c = "U" -> "u" [] c = "E" -> "e"
      [] c = "Y" -> "y" [] c = "S" -> "s" [] c = "O" -> "o" [] c = "N" -> "n"
      [] OTHER -> c

lower(s) == [i \in 1..Len(s) |-> LowerChar(s[i])]

-----------------------------------------------------------------------------
(* langgraph/utils.py: the value parsers                                   *)

\* a slip: the ValueError of a malformed text is not caught
validate_date_uncaught(date_str) == date_fromisoformat(date_str)

\* try: return date.fromisoformat(date_str)  except ValueError: return None
validate_date(date_str) ==
    LET r == date_fromisoformat(date_str) IN
    IF ~r.ok /\ r.exc.type \in ValueErrorTypes THEN EOk(None) ELSE r

validate_time(time_str) ==
    LET r == time_fromisoformat(time_str) IN
    IF ~r.ok /\ r.exc.type \in ValueErrorTypes THEN EOk(None) ELSE r

validate_party_size(party_size) ==
    LET r == py_int(party_size) IN
    IF r.ok THEN (IF r.v.n > 0 THEN r ELSE EOk(None))
    ELSE IF r.exc.type \in ValueErrorTypes \cup {"TypeError"} THEN EOk(None)
    ELSE r

validate_cancellation_reason(reason_id) ==
    LET r == py_int(reason_id) IN
    IF r.ok THEN (IF 1 <= r.v.n /\ r.v.n <= 5 THEN r ELSE EOk(None))
    ELSE IF r.exc.type \in ValueErrorTypes \cup {"TypeError"} THEN EOk(None)
    ELSE r

TrueWords == {<<"t", "r", "u", "e">>, <<"1">>, <<"y", "e", "s">>, <<"o", "n">>}

\* a slip: the word "on" is left out, as in the adapters' own boolean handling
parse_boolean_without_on(value) ==
    IF value.t = "bool" THEN EOk(value)
    ELSE IF value.t = "str"
         THEN EOk(BoolV(lower(value.s) \in {<<"t", "r", "u", "e">>, <<"1">>, <<"y", "e", "s">>}))
    ELSE IF value.t = "int" THEN EOk(BoolV(value.n # 0))
    ELSE EOk(None)

parse_boolean(value) ==
    IF value.t = "bool" THEN EOk(value)
    ELSE IF value.t = "str" THEN EOk(BoolV(lower(value.s) \in TrueWords))
    ELSE IF value.t = "int" THEN EOk(BoolV(value.n # 0))
    ELSE EOk(None)

-----------------------------------------------------------------------------
(* Dictionaries                                                            *)

\* a decoded JSON object: s lists its keys and values, key1, value1, key2, ...
JDict(pairs) == [t |-> "dict", s |-> pairs, n |-> 0]
\* a decoded JSON array
JList(items) == [t |-> "list", s |-> items, n |-> 0]
\* the dict {"error": text} an adapter or the wrapper builds
ErrorDict(text) == [t |-> "errdict", s |-> text, n |-> 0]

HasKey(d, k) == \E i \in 1..Len(d.s) : i % 2 = 1 /\ d.s[i] = k

\* d.get(k, default) on a decoded JSON object
dict_get(d, k, default) ==
    IF HasKey(d, k)
    THEN <<d.s[(CHOOSE i \in 1..Len(d.s) : i % 2 = 1 /\ d.s[i] = k) + 1]>>
    ELSE default

-----------------------------------------------------------------------------
(* The booking API stub and the requests library                           *)

BodySlots == "{\"slots\": []}"
BodyDetail == "{\"detail\": \"not found\"}"
BodyDetail2 == "{\"detail\": \"gone\"}"
BodyList == "[]"
BodyHtml == "<html>"

Bodies == {BodySlots, BodyDetail, BodyDetail2, BodyList, BodyHtml}
Statuses == {200, 201, 302, 404, 500}

Resp(status, body) ==
    [kind |-> "response", status |-> status, body |-> body, etype |-> "", msg |-> <<>>]
Fail(etype, msg) ==
    [kind |-> "transport", status |-> 0, body |-> "", etype |-> etype, msg |-> msg]

HttpOutcomes ==
    {Resp(st, b) : st \in Statuses, b \in Bodies}
        \cup {Fail("ConnectionError", <<"Connection refused">>),
              Fail("Timeout", <<"Read timed out.">>)}

\* the exchange the stub answers when nothing is said about it
NominalH == Resp(200, BodySlots)

\* response.json()
response_json(body) ==
    CASE body = BodySlots -> EOk(JDict(<<"slots", "[]">>))
      [] body = BodyDetail -> EOk(JDict(<<"detail", "not found">>))
      [] body = BodyDetail2 -> EOk(JDict(<<"detail", "gone">>))
      [] body = BodyList -> EOk(JList(<<>>))
      [] OTHER ->
            ERaise(Exc("JSONDecodeError", <<"Expecting value: line 1 column 1 (char 0)">>))

\* response.raise_for_status(): HTTPError for 4xx and 5xx only
raise_for_status(h, url) ==
    IF 400 <= h.status /\ h.status < 600
    THEN ERaise([type |-> "HTTPError",
                 msg |-> IntText(h.status)
                         \o <<IF h.status < 500 THEN " Client Error: " ELSE " Server Error: ",
                              "<reason>", " for url: ">> \o url,
                 hasResp |-> TRUE, status |-> h.status, body |-> h.body])
    ELSE EOk(None)

Ret(v) == [ret |-> EOk(v), sent |-> <<>>]
Raise(e) == [ret |-> ERaise(e), sent |-> <<>>]

\* a slip: the body text is returned instead of the decoded JSON
session_request_returns_text(method, url, data, h) ==
    LET req == [method |-> method, url |-> url, data |-> data] IN
    IF h.kind = "transport"
    THEN [ret |-> ERaise(Exc(h.etype, h.msg)), sent |-> <<req>>]
    ELSE LET rs == raise_for_status(h, url) IN
         IF ~rs.ok THEN [ret |-> rs, sent |-> <<req>>]
         ELSE [ret |-> EOk(StrV(<<h.body>>)), sent |-> <<req>>]

\* a slip: a request that fails is sent a second time
session_request_retries(method, url, data, h) ==
    LET req == [method |-> method, url |-> url, data |-> data] IN
    IF h.kind = "transport"
    THEN [ret |-> ERaise(Exc(h.etype, h.msg)), sent |-> <<req, req>>]
    ELSE LET rs == raise_for_status(h, url) IN
         IF ~rs.ok THEN [ret |-> rs, sent |-> <<req, req>>]
         ELSE [ret |-> response_json(h.body), sent |-> <<req>>]

\* response = self.session.<method>(url, data=data); response.raise_for_status();
\* return response.json()
session_request(method, url, data, h) ==
    LET req == [method |-> method, url |-> url, data |-> data] IN
    IF h.kind = "transport"
    THEN [ret |-> ERaise(Exc(h.etype, h.msg)), sent |-> <<req>>]
    ELSE LET rs == raise_for_status(h, url) IN
         IF ~rs.ok THEN [ret |-> rs, sent |-> <<req>>]
         ELSE [ret |-> response_json(h.body), sent |-> <<req>>]

-----------------------------------------------------------------------------
(* clients/restaurant_api.py: RestaurantAPI                                *)

base_url == "http://localhost:8547"

RestaurantUrl(restaurant_name) ==
    <<base_url, "/api/ConsumerApi/v1/Restaurant/">> \o PyStr(restaurant_name)

\* one entry of the form-encoded payload; keys are text
Field(k, v) == {<<(<<k>>), v>>}

RestaurantAPI_check_availability(restaurant_name, visit_date, party_size, channel_code, h) ==
    session_request("POST",
        RestaurantUrl(restaurant_name) \o <<"/AvailabilitySearch">>,
        Field("VisitDate", StrV(strftime_date(visit_date)))
            \cup Field("PartySize", party_size)
            \cup Field("ChannelCode", channel_code),
        h)

\* a dict of customer fields: items is its set of <<key, value>> entries
Dict(items) == [t |-> "dict", items |-> items]
NoDict == [t |-> "none", items |-> {}]
AbsentDict == [t |-> "absent", items |-> {}]

\* a slip: the fields whose value is None are forwarded too
CustomerFieldsOf_with_none(customer_data) ==
    IF customer_data.t = "dict" /\ customer_data.items # {}
    THEN {<<(<<"Customer[", e[1], "]">>), e[2]>> : e \in customer_data.items}
    ELSE {}

\* if customer_data: for key, value in customer_data.items():
\*     if value is not None: data[f'Customer[{key}]'] = value
CustomerFieldsOf(customer_data) ==
    IF customer_data.t = "dict" /\ customer_data.items # {}
    THEN {<<(<<"Customer[", e[1], "]">>), e[2]>> :
            e \in {x \in customer_data.items : x[2] # None}}
    ELSE {}

RestaurantAPI_book_reservation(restaurant_name, visit_date, visit_time, party_size, channel_code, special_requests, is_leave_time_confirmed, room_number, customer_data, h) ==
    session_request("POST",
        RestaurantUrl(restaurant_name) \o <<"/BookingWithStripeToken">>,
        Field("VisitDate", StrV(strftime_date(visit_date)))
            \cup Field("VisitTime", StrV(strftime_time(visit_time)))
            \cup Field("PartySize", party_size)
            \cup Field("ChannelCode", channel_code)
            \cup (IF Truthy(special_requests)
                  THEN Field("SpecialRequests", special_requests) ELSE {})
            \cup (IF is_leave_time_confirmed # None
                  THEN Field("IsLeaveTimeConfirmed", is_leave_time_confirmed) ELSE {})
            \cup (IF Truthy(room_number) THEN Field("RoomNumber", room_number) ELSE {})
            \cup CustomerFieldsOf(customer_data),
        h)

RestaurantAPI_get_booking(restaurant_name, booking_reference, h) ==
    session_request("GET",
        RestaurantUrl(restaurant_name) \o <<"/Booking/">> \o PyStr(booking_reference),
        {}, h)

\* a slip: SpecialRequests and IsLeaveTimeConfirmed are sent whether supplied or not
RestaurantAPI_update_booking_sends_all(restaurant_name, booking_reference, visit_date, visit_time, party_size, special_requests, is_leave_time_confirmed, h) ==
    session_request("PATCH",
        RestaurantUrl(restaurant_name) \o <<"/Booking/">> \o PyStr(booking_reference),
        (IF Truthy(visit_date)
         THEN Field("VisitDate", StrV(strftime_date(visit_date))) ELSE {})
            \cup (IF Truthy(visit_time)
                  THEN Field("VisitTime", StrV(strftime_time(visit_time))) ELSE {})
            \cup (IF Truthy(party_size) THEN Field("PartySize", party_size) ELSE {})
            \cup Field("SpecialRequests", special_requests)
            \cup Field("IsLeaveTimeConfirmed", is_leave_time_confirmed),
        h)

RestaurantAPI_update_booking(restaurant_name, booking_reference, visit_date, visit_time, party_size, special_requests, is_leave_time_confirmed, h) ==
    session_request("PATCH",
        RestaurantUrl(restaurant_name) \o <<"/Booking/">> \o PyStr(booking_reference),
        (IF Truthy(visit_date)
         THEN Field("VisitDate", StrV(strftime_date(visit_date))) ELSE {})
            \cup (IF Truthy(visit_time)
                  THEN Field("VisitTime", StrV(strftime_time(visit_time))) ELSE {})
            \cup (IF Truthy(party_size) THEN Field("PartySize", party_size) ELSE {})
            \cup (IF Truthy(special_requests)
                  THEN Field("SpecialRequests", special_requests) ELSE {})
            \cup (IF is_leave_time_confirmed # None
                  THEN Field("IsLeaveTimeConfirmed", is_leave_time_confirmed) ELSE {}),
        h)

RestaurantAPI_cancel_booking(restaurant_name, booking_reference, cancellation_reason_id, h) ==
    session_request("POST",
        RestaurantUrl(restaurant_name) \o <<"/Booking/">> \o PyStr(booking_reference)
            \o <<"/Cancel">>,
        Field("micrositeName", restaurant_name)
            \cup Field("bookingReference", booking_reference)
            \cup Field("cancellationReasonId", cancellation_reason_id),
        h)

-----------------------------------------------------------------------------
(* langgraph/utils.py: handle_api_error                                    *)

\* the decorator's wrapper, applied to the outcome r of func(*args, **kwargs)
handle_api_error(r) ==
    IF r.ret.ok THEN r
    ELSE LET e == r.ret.exc IN
         IF e.type \in RequestExceptionTypes
         THEN IF e.hasResp
              THEN LET j == response_json(e.body) IN
                   IF j.ok
                   THEN IF j.v.t = "dict"
                        THEN [ret |-> EOk(ErrorDict(
                                    <<"API Error (">> \o IntText(e.status) \o <<"): ">>
                                        \o dict_get(j.v, "detail", e.msg))),
                              sent |-> r.sent]
                        \* .get on a list: AttributeError, raised inside the handler
                        ELSE [ret |-> ERaise(Exc("AttributeError",
                                    <<"'", j.v.t, "' object has no attribute 'get'">>)),
                              sent |-> r.sent]
                   ELSE IF j.exc.type \in ValueErrorTypes \cup {"KeyError"}
                   THEN [ret |-> EOk(ErrorDict(
                                <<"API Error (">> \o IntText(e.status) \o <<"): ">> \o e.msg)),
                         sent |-> r.sent]
                   ELSE [ret |-> j, sent |-> r.sent]
              ELSE [ret |-> EOk(ErrorDict(<<"Network Error: ">> \o e.msg)), sent |-> r.sent]
         ELSE [ret |-> EOk(ErrorDict(<<"Unexpected Error: ">> \o e.msg)), sent |-> r.sent]

-----------------------------------------------------------------------------
(* langgraph/tools.py: the adapters taking a params dict                   *)

\* params.get(key): None when the key is not there
get(params, key) == IF params[key].t = "absent" THEN None ELSE params[key]

\* params.get(key, default)
get_default(params, key, default) ==
    IF params[key].t = "absent" THEN default ELSE params[key]

ONLINE == StrV(<<"O", "N", "L", "I", "N", "E">>)

\* all([...])
all(vs) == \A v \in vs : Truthy(v)

\* except Exception as e: return {"error": str(e)}
except_Exception(r) ==
    IF r.ret.ok THEN r ELSE [ret |-> EOk(ErrorDict(r.ret.exc.msg)), sent |-> r.sent]

\* if isinstance(x, str): x = x.lower() in ['true', '1', 'yes']
tool_boolean(x) ==
    IF x # None /\ x.t = "str"
    THEN BoolV(lower(x.s) \in {<<"t", "r", "u", "e">>, <<"1">>, <<"y", "e", "s">>})
    ELSE x

InvalidDateFormat(x) ==
    Ret(ErrorDict(<<"Invalid date format: ">> \o PyStr(x) \o <<". Use YYYY-MM-DD format">>))
InvalidTimeFormat(x) ==
    Ret(ErrorDict(<<"Invalid time format: ">> \o PyStr(x) \o <<". Use HH:MM:SS format">>))
InvalidPartySize(x) ==
    Ret(ErrorDict(<<"Invalid party size: ">> \o PyStr(x) \o <<". Must be a number">>))

\* the outcome of a try/except around a parse: "ok", "caught" or "raised"
Parse(r, caught) ==
    IF r.ok THEN "ok" ELSE IF r.exc.type \in caught THEN "caught" ELSE "raised"

check_availability_tool_body(params, h) ==
    LET restaurant_name == get(params, "restaurant_name")
        visit_date_str == get(params, "visit_date")
        party_size == get(params, "party_size")
        channel_code == get_default(params, "channel_code", ONLINE)
        visit_date == date_fromisoformat(visit_date_str)
        size == py_int(party_size)
    IN  IF ~all({restaurant_name, visit_date_str, party_size})
        THEN Ret(ErrorDict(
                <<"Missing required parameters: restaurant_name, visit_date, party_size">>))
        ELSE IF Parse(visit_date, ValueErrorTypes) = "caught"
        THEN InvalidDateFormat(visit_date_str)
        ELSE IF ~visit_date.ok THEN Raise(visit_date.exc)
        ELSE IF Parse(size, ValueErrorTypes \cup {"TypeError"}) = "caught"
        THEN InvalidPartySize(party_size)
        ELSE IF ~size.ok THEN Raise(size.exc)
        ELSE RestaurantAPI_check_availability(restaurant_name, visit_date.v, size.v,
                                              channel_code, h)

check_availability_tool(params, h) ==
    handle_api_error(except_Exception(check_availability_tool_body(params, h)))

book_reservation_tool_body(params, h) ==
    LET restaurant_name == get(params, "restaurant_name")
        visit_date_str == get(params, "visit_date")
        visit_time_str == get(params, "visit_time")
        party_size == get(params, "party_size")
        channel_code == get_default(params, "channel_code", ONLINE)
        special_requests == get(params, "special_requests")
        is_leave_time_confirmed == get(params, "is_leave_time_confirmed")
        room_number == get(params, "room_number")
        customer_data == IF params.customer_data.t = "absent" THEN Dict({})
                         ELSE params.customer_data
        visit_date == date_fromisoformat(visit_date_str)
        visit_time == time_fromisoformat(visit_time_str)
        size == py_int(party_size)
    IN  IF ~all({restaurant_name, visit_date_str, visit_time_str, party_size})
        THEN Ret(ErrorDict(
                <<"Missing required parameters: restaurant_name, visit_date, visit_time, party_size">>))
        ELSE IF Parse(visit_date, ValueErrorTypes) = "caught"
        THEN InvalidDateFormat(visit_date_str)
        ELSE IF ~visit_date.ok THEN Raise(visit_date.exc)
        ELSE IF Parse(visit_time, ValueErrorTypes) = "caught"
        THEN InvalidTimeFormat(visit_time_str)
        ELSE IF ~visit_time.ok THEN Raise(visit_time.exc)
        ELSE IF Parse(size, ValueErrorTypes \cup {"TypeError"}) = "caught"
        THEN InvalidPartySize(party_size)
        ELSE IF ~size.ok THEN Raise(size.exc)
        ELSE RestaurantAPI_book_reservation(restaurant_name, visit_date.v, visit_time.v,
                size.v, channel_code, special_requests,
                tool_boolean(is_leave_time_confirmed), room_number, customer_data, h)

book_reservation_tool(params, h) ==
    handle_api_error(except_Exception(book_reservation_tool_body(params, h)))

get_reservation_tool_body(params, h) ==
    LET restaurant_name == get(params, "restaurant_name")
        booking_reference == get(params, "booking_reference")
    IN  IF ~all({restaurant_name, booking_reference})
        THEN Ret(ErrorDict(
                <<"Missing required parameters: restaurant_name, booking_reference">>))
        ELSE RestaurantAPI_get_booking(restaurant_name, booking_reference, h)

get_reservation_tool(params, h) ==
    handle_api_error(except_Exception(get_reservation_tool_body(params, h)))

update_reservation_tool_body(params, h) ==
    LET restaurant_name == get(params, "restaurant_name")
        booking_reference == get(params, "booking_reference")
        visit_date_str == get(params, "visit_date")
        visit_time_str == get(params, "visit_time")
        party_size == get(params, "party_size")
        special_requests == get(params, "special_requests")
        is_leave_time_confirmed == get(params, "is_leave_time_confirmed")
        visit_date == IF Truthy(visit_date_str) THEN date_fromisoformat(visit_date_str)
                      ELSE EOk(None)
        visit_time == IF Truthy(visit_time_str) THEN time_fromisoformat(visit_time_str)
                      ELSE EOk(None)
        size == IF party_size # None THEN py_int(party_size) ELSE EOk(party_size)
    IN  IF ~all({restaurant_name, booking_reference})
        THEN Ret(ErrorDict(
                <<"Missing required parameters: restaurant_name, booking_reference">>))
        ELSE IF Parse(visit_date, ValueErrorTypes) = "caught"
        THEN InvalidDateFormat(visit_date_str)
        ELSE IF ~visit_date.ok THEN Raise(visit_date.exc)
        ELSE IF Parse(visit_time, ValueErrorTypes) = "caught"
        THEN InvalidTimeFormat(visit_time_str)
        ELSE IF ~visit_time.ok THEN Raise(visit_time.exc)
        ELSE IF Parse(size, ValueErrorTypes \cup {"TypeError"}) = "caught"
        THEN InvalidPartySize(party_size)
        ELSE IF ~size.ok THEN Raise(size.exc)
        ELSE RestaurantAPI_update_booking(restaurant_name, booking_reference,
                visit_date.v, visit_time.v, size.v, special_requests,
                tool_boolean(is_leave_time_confirmed), h)

update_reservation_tool(params, h) ==
    handle_api_error(except_Exception(update_reservation_tool_body(params, h)))

cancel_reservation_tool_body(params, h) ==
    LET restaurant_name == get(params, "restaurant_name")
        booking_reference == get(params, "booking_reference")
        cancellation_reason_id == get(params, "cancellation_reason_id")
        reason == py_int(cancellation_reason_id)
    IN  IF ~all({restaurant_name, booking_reference, cancellation_reason_id})
        THEN Ret(ErrorDict(
                <<"Missing required parameters: restaurant_name, booking_reference, cancellation_reason_id">>))
        ELSE IF Parse(reason, ValueErrorTypes \cup {"TypeError"}) = "caught"
        THEN Ret(ErrorDict(<<"Invalid cancellation reason ID: ">>
                    \o PyStr(cancellation_reason_id) \o <<". Must be a number between 1-5">>))
        ELSE IF ~reason.ok THEN Raise(reason.exc)
        ELSE IF ~(1 <= reason.v.n /\ reason.v.n <= 5)
        THEN Ret(ErrorDict(<<"Cancellation reason ID must be between 1 and 5">>))
        ELSE RestaurantAPI_cancel_booking(restaurant_name, booking_reference, reason.v, h)

cancel_reservation_tool(params, h) ==
    handle_api_error(except_Exception(cancel_reservation_tool_body(params, h)))

-----------------------------------------------------------------------------
(* restaurant_langgraph/tools.py: the adapters with typed signatures       *)

\* calling a function without one of its required arguments: TypeError, raised
\* by func(*args, **kwargs) inside the wrapper's try
Missing(args, required) == {k \in required : args[k].t = "absent"}

MissingArgument(fn) ==
    Raise(Exc("TypeError", <<fn, "() missing required positional arguments">>))

\* a parameter with a default
arg_default(args, key, default) ==
    IF args[key].t = "absent" THEN default ELSE args[key]

InvalidDate(x) ==
    Ret(ErrorDict(<<"Invalid date: ">> \o PyStr(x) \o <<". Use YYYY-MM-DD.">>))
InvalidTime(x) ==
    Ret(ErrorDict(<<"Invalid time: ">> \o PyStr(x) \o <<". Use HH:MM:SS.">>))

check_availability_body(args, h) ==
    LET d == date_fromisoformat(args.visit_date) IN
    IF Missing(args, {"restaurant_name", "visit_date", "party_size"}) # {}
    THEN MissingArgument("check_availability")
    ELSE IF Parse(d, ValueErrorTypes) = "caught" THEN InvalidDate(args.visit_date)
    ELSE IF ~d.ok THEN Raise(d.exc)
    ELSE RestaurantAPI_check_availability(args.restaurant_name, d.v, args.party_size,
            arg_default(args, "channel_code", ONLINE), h)

check_availability(args, h) == handle_api_error(check_availability_body(args, h))

\* the customer keyword arguments and the keys they are sent under
TextCustomerArgs ==
    {<<"title", "Title">>, <<"first_name", "FirstName">>, <<"surname", "Surname">>,
     <<"email", "Email">>, <<"mobile", "Mobile">>, <<"phone", "Phone">>,
     <<"mobile_country_code", "MobileCountryCode">>,
     <<"phone_country_code", "PhoneCountryCode">>}
FlagCustomerArgs ==
    {<<"receive_email_marketing", "ReceiveEmailMarketing">>,
     <<"receive_sms_marketing", "ReceiveSmsMarketing">>}

\* the value of a keyword argument whose default is None
kwarg(items, name) ==
    IF \E e \in items : e[1] = name
    THEN (CHOOSE e \in items : e[1] = name)[2]
    ELSE None

\* if title: customer_data["Title"] = title ...
\* if receive_email_marketing is not None: customer_data[...] = ...
assemble_customer_data(items) ==
    Dict({<<a[2], kwarg(items, a[1])>> : a \in {x \in TextCustomerArgs : Truthy(kwarg(items, x[1]))}}
         \cup {<<a[2], kwarg(items, a[1])>> :
                a \in {x \in FlagCustomerArgs : kwarg(items, x[1]) # None}})

book_reservation_body(args, h) ==
    LET d == date_fromisoformat(args.visit_date)
        t == time_fromisoformat(args.visit_time)
    IN
    IF Missing(args, {"restaurant_name", "visit_date", "visit_time", "party_size"}) # {}
    THEN MissingArgument("book_reservation")
    ELSE IF Parse(d, ValueErrorTypes) = "caught" THEN InvalidDate(args.visit_date)
    ELSE IF ~d.ok THEN Raise(d.exc)
    ELSE IF Parse(t, ValueErrorTypes) = "caught" THEN InvalidTime(args.visit_time)
    ELSE IF ~t.ok THEN Raise(t.exc)
    ELSE RestaurantAPI_book_reservation(args.restaurant_name, d.v, t.v, args.party_size,
            arg_default(args, "channel_code", ONLINE),
            arg_default(args, "special_requests", None), None, None,
            assemble_customer_data(args.customer_data.items), h)

book_reservation(args, h) == handle_api_error(book_reservation_body(args, h))

get_reservation_body(args, h) ==
    IF Missing(args, {"restaurant_name", "booking_reference"}) # {}
    THEN MissingArgument("get_reservation")
    ELSE RestaurantAPI_get_booking(args.restaurant_name, args.booking_reference, h)

get_reservation(args, h) == handle_api_error(get_reservation_body(args, h))

update_reservation_body(args, h) ==
    LET visit_date == arg_default(args, "visit_date", None)
        visit_time == arg_default(args, "visit_time", None)
        d == IF Truthy(visit_date) THEN date_fromisoformat(visit_date) ELSE EOk(None)
        t == IF Truthy(visit_time) THEN time_fromisoformat(visit_time) ELSE EOk(None)
    IN
    IF Missing(args, {"restaurant_name", "booking_reference"}) # {}
    THEN MissingArgument("update_reservation")
    ELSE IF Parse(d, ValueErrorTypes) = "caught" THEN InvalidDate(visit_date)
    ELSE IF ~d.ok THEN Raise(d.exc)
    ELSE IF Parse(t, ValueErrorTypes) = "caught" THEN InvalidTime(visit_time)
    ELSE IF ~t.ok THEN Raise(t.exc)
    ELSE RestaurantAPI_update_booking(args.restaurant_name, args.booking_reference,
            d.v, t.v, arg_default(args, "party_size", None),
            arg_default(args, "special_requests", None),
            arg_default(args, "is_leave_time_confirmed", None), h)

update_reservation(args, h) == handle_api_error(update_reservation_body(args, h))

\* 1 <= x <= 5: TypeError unless x is a number
in_1_to_5(x) ==
    CASE x.t \in {"int", "bool"} -> EOk(BoolV(1 <= x.n /\ x.n <= 5))
      [] x.t = "float" -> EOk(BoolV(2 <= x.n /\ x.n <= 10))
      [] OTHER ->
            ERaise(Exc("TypeError",
                <<"'<=' not supported between instances of 'int' and '", TypeName(x), "'">>))

cancel_reservation_body(args, h) ==
    LET c == in_1_to_5(args.cancellation_reason_id) IN
    IF Missing(args, {"restaurant_name", "booking_reference", "cancellation_reason_id"}) # {}
    THEN MissingArgument("cancel_reservation")
    ELSE IF ~c.ok THEN Raise(c.exc)
    ELSE IF c.v.n = 0
    THEN Ret(ErrorDict(<<"cancellation_reason_id must be between 1 and 5">>))
    ELSE RestaurantAPI_cancel_booking(args.restaurant_name, args.booking_reference,
            args.cancellation_reason_id, h)

cancel_reservation(args, h) == handle_api_error(cancel_reservation_body(args, h))

-----------------------------------------------------------------------------
(* The arguments a call may carry                                          *)

NoArgs ==
    [restaurant_name |-> Absent, booking_reference |-> Absent, visit_date |-> Absent,
     visit_time |-> Absent, party_size |-> Absent, channel_code |-> Absent,
     special_requests |-> Absent, is_leave_time_confirmed |-> Absent,
     room_number |-> Absent, customer_data |-> AbsentDict,
     cancellation_reason_id |-> Absent, value |-> Absent]

GoodName == StrV(<<"U">>)
GoodRef == StrV(<<"R", "1">>)
GoodDate == StrV(<<"2", "0", "2", "5", "-", "0", "8", "-", "0", "6">>)
SlashDate == StrV(<<"0", "8", "/", "0", "6", "/", "2", "0", "2", "5">>)
BasicDate == StrV(<<"2", "0", "2", "5", "0", "8", "0", "6">>)
NoSuchDay == StrV(<<"2", "0", "2", "5", "-", "0", "2", "-", "3", "0">>)
GoodTime == StrV(<<"1", "2", ":", "0", "0", ":", "0", "0">>)
ShortTime == StrV(<<"1", "9", ":", "3", "0">>)
NoSuchHour == StrV(<<"2", "5", ":", "0", "0", ":", "0", "0">>)
Noon == StrV(<<"n", "o", "o", "n">>)
Empty == StrV(<<>>)
Abc == StrV(<<"a", "b", "c">>)

Ints == {IntV(n) : n \in -1..MaxInt}

NameArgs == {Absent, None, GoodName}
RefArgs == {Absent, None, GoodRef}
DateArgs == {Absent, None, IntV(5), Empty, GoodDate, SlashDate, BasicDate, NoSuchDay}
TimeArgs == {Absent, None, GoodTime, ShortTime, NoSuchHour, Noon}
PartyArgs == {Absent, None, IntV(-1), IntV(0), IntV(3), StrV(<<"3">>), Abc, FloatV(7)}
ReasonArgs ==
    {Absent, None, StrV(<<"3">>), StrV(<<"6">>), Abc, FloatV(7), FloatV(11), BoolV(TRUE)}
        \cup Ints
ChannelArgs == {Absent, StrV(<<"W">>)}
SpecialArgs == {Absent, Empty, StrV(<<"w">>)}
LeaveArgs ==
    {Absent, BoolV(TRUE), BoolV(FALSE), StrV(<<"o", "n">>), StrV(<<"Y", "E", "S">>),
     StrV(<<"n", "o">>)}
RoomArgs == {Absent, StrV(<<"7">>)}

\* customer_data dicts, as langgraph/tools.py takes them
CustomerDicts ==
    {AbsentDict, NoDict, Dict({}),
     Dict({<<"FirstName", StrV(<<"J">>)>>, <<"Title", Empty>>, <<"Email", None>>,
           <<"ReceiveSmsMarketing", BoolV(FALSE)>>})}

\* customer keyword arguments, as restaurant_langgraph/tools.py takes them
CustomerKwargs ==
    {Dict({}),
     Dict({<<"first_name", StrV(<<"J">>)>>, <<"title", Empty>>, <<"email", None>>,
           <<"receive_sms_marketing", BoolV(FALSE)>>}),
     Dict({<<"surname", StrV(<<"D">>)>>, <<"receive_email_marketing", BoolV(TRUE)>>})}

NominalCheck ==
    [NoArgs EXCEPT !.restaurant_name = GoodName, !.visit_date = GoodDate,
                   !.party_size = IntV(3)]
NominalBook == [NominalCheck EXCEPT !.visit_time = GoodTime]
NominalGet == [NoArgs EXCEPT !.restaurant_name = GoodName, !.booking_reference = GoodRef]
NominalUpdate == [NominalGet EXCEPT !.party_size = IntV(3)]
NominalCancel == [NominalGet EXCEPT !.cancellation_reason_id = IntV(1)]

CheckArgs ==
    {[NoArgs EXCEPT !.restaurant_name = n, !.visit_date = d, !.party_size = p,
                    !.channel_code = c] :
        n \in NameArgs, d \in DateArgs, p \in PartyArgs, c \in ChannelArgs}

\* the required arguments vary, or the optional ones do
BookArgs(customers) ==
    {[NoArgs EXCEPT !.restaurant_name = n, !.visit_date = d, !.visit_time = t,
                    !.party_size = p, !.customer_data = Dict({})] :
        n \in NameArgs, d \in DateArgs, t \in TimeArgs, p \in PartyArgs}
    \cup
    {[NominalBook EXCEPT !.channel_code = c, !.special_requests = s,
                         !.is_leave_time_confirmed = l, !.room_number = r,
                         !.customer_data = cd] :
        c \in ChannelArgs, s \in SpecialArgs, l \in LeaveArgs, r \in RoomArgs,
        cd \in customers}

GetArgs ==
    {[NoArgs EXCEPT !.restaurant_name = n, !.booking_reference = b] :
        n \in NameArgs, b \in RefArgs}

UpdateArgs ==
    {[NoArgs EXCEPT !.restaurant_name = n, !.booking_reference = b, !.party_size = p] :
        n \in NameArgs, b \in RefArgs, p \in {Absent, IntV(3)}}
    \cup
    {[NominalGet EXCEPT !.visit_date = d, !.visit_time = t, !.party_size = p,
                        !.special_requests = s, !.is_leave_time_confirmed = l] :
        d \in DateArgs, t \in TimeArgs, p \in PartyArgs, s \in SpecialArgs,
        l \in LeaveArgs \cup {None}}

CancelArgs ==
    {[NoArgs EXCEPT !.restaurant_name = n, !.booking_reference = b,
                    !.cancellation_reason_id = c] :
        n \in NameArgs, b \in RefArgs, c \in ReasonArgs}

\* what the value parsers are applied to
ParserInputs ==
    {None, Empty, Abc, GoodDate, SlashDate, BasicDate, NoSuchDay, GoodTime, ShortTime,
     NoSuchHour, Noon, StrV(<<"3">>), StrV(<<"6">>), StrV(<<" ", "5", " ">>),
     StrV(<<"-", "2">>), StrV(<<"3", ".", "5">>),
     StrV(<<"t", "r", "u", "e">>), StrV(<<"T", "r", "u", "e">>), StrV(<<"1">>),
     StrV(<<"Y", "E", "S">>), StrV(<<"O", "n">>), StrV(<<"n", "o">>),
     BoolV(TRUE), BoolV(FALSE),
     FloatV(-1), FloatV(1), FloatV(6), FloatV(7), FloatV(11), FloatV(2 * MaxInt + 1)}
        \cup Ints

\* the stub's answer varies on the calls whose arguments are the nominal ones
InScope(args, h, nominal) == h = NominalH \/ args = nominal

-----------------------------------------------------------------------------
(* The state machine: a caller invokes an operation and takes its result   *)

Idle == [fn |-> "", args |-> NoArgs, h |-> NominalH]

\* the process has not been started
NoStart == [code |-> 0, exc |-> NoExc, printed |-> <<>>]

Init ==
    /\ pc = "idle"
    /\ call = Idle
    /\ result = EOk(None)
    /\ sent = <<>>
    /\ py311 \in BOOLEAN
    /\ env = None
    /\ server = "start"
    /\ exit = NoStart
    /\ chats = <<>>

Call(fn, args, h, r) ==
    /\ pc = "idle"
    /\ pc' = "returned"
    /\ call' = [fn |-> fn, args |-> args, h |-> h]
    /\ result' = r.ret
    /\ sent' = r.sent
    /\ UNCHANGED py311
    /\ UNCHANGED agentVars

CallCheckAvailabilityTool ==
    /\ pc = "idle"
    /\ \E args \in CheckArgs, h \in HttpOutcomes :
        /\ InScope(args, h, NominalCheck)
        /\ Call("check_availability_tool", args, h, check_availability_tool(args, h))

CallBookReservationTool ==
    /\ pc = "idle"
    /\ \E args \in BookArgs(CustomerDicts), h \in HttpOutcomes :
        /\ InScope(args, h, NominalBook)
        /\ Call("book_reservation_tool", args, h, book_reservation_tool(args, h))

CallGetReservationTool ==
    /\ pc = "idle"
    /\ \E args \in GetArgs, h \in HttpOutcomes :
        /\ InScope(args, h, NominalGet)
        /\ Call("get_reservation_tool", args, h, get_reservation_tool(args, h))

CallUpdateReservationTool ==
    /\ pc = "idle"
    /\ \E args \in UpdateArgs, h \in HttpOutcomes :
        /\ InScope(args, h, NominalUpdate)
        /\ Call("update_reservation_tool", args, h, update_reservation_tool(args, h))

CallCancelReservationTool ==
    /\ pc = "idle"
    /\ \E args \in CancelArgs, h \in HttpOutcomes :
        /\ InScope(args, h, NominalCancel)
        /\ Call("cancel_reservation_tool", args, h, cancel_reservation_tool(args, h))

CallCheckAvailability ==
    /\ pc = "idle"
    /\ \E args \in CheckArgs, h \in HttpOutcomes :
        /\ InScope(args, h, NominalCheck)
        /\ Call("check_availability", args, h, check_availability(args, h))

CallBookReservation ==
    /\ pc = "idle"
    /\ \E args \in BookArgs(CustomerKwargs), h \in HttpOutcomes :
        /\ InScope(args, h, NominalBook)
        /\ Call("book_reservation", args, h, book_reservation(args, h))

CallGetReservation ==
    /\ pc = "idle"
    /\ \E args \in GetArgs, h \in HttpOutcomes :
        /\ InScope(args, h, NominalGet)
        /\ Call("get_reservation", args, h, get_reservation(args, h))

CallUpdateReservation ==
    /\ pc = "idle"
    /\ \E args \in UpdateArgs, h \in HttpOutcomes :
        /\ InScope(args, h, NominalUpdate)
        /\ Call("update_reservation", args, h, update_reservation(args, h))

CallCancelReservation ==
    /\ pc = "idle"
    /\ \E args \in CancelArgs, h \in HttpOutcomes :
        /\ InScope(args, h, NominalCancel)
        /\ Call("cancel_reservation", args, h, cancel_reservation(args, h))

Parsed(fn, v, r) == Call(fn, [NoArgs EXCEPT !.value = v], NominalH, [ret |-> r, sent |-> <<>>])

CallValidateDate ==
    /\ pc = "idle"
    /\ \E v \in ParserInputs : Parsed("validate_date", v, validate_date(v))

CallValidateTime ==
    /\ pc = "idle"
    /\ \E v \in ParserInputs : Parsed("validate_time", v, validate_time(v))

CallValidatePartySize ==
    /\ pc = "idle"
    /\ \E v \in ParserInputs : Parsed("validate_party_size", v, validate_party_size(v))

CallValidateCancellationReason ==
    /\ pc = "idle"
    /\ \E v \in ParserInputs :
        Parsed("validate_cancellation_reason", v, validate_cancellation_reason(v))

CallParseBoolean ==
    /\ pc = "idle"
    /\ \E v \in ParserInputs : Parsed("parse_boolean", v, parse_boolean(v))

\* the caller takes the result
Return ==
    /\ pc = "returned"
    /\ pc' = "idle"
    /\ call' = Idle
    /\ result' = EOk(None)
    /\ sent' = <<>>
    /\ UNCHANGED py311
    /\ UNCHANGED agentVars

Next ==
    \/ CallValidateDate
    \/ CallValidateTime
    \/ CallValidatePartySize
    \/ CallValidateCancellationReason
    \/ CallParseBoolean
    \/ CallCheckAvailabilityTool
    \/ CallBookReservationTool
    \/ CallGetReservationTool
    \/ CallUpdateReservationTool
    \/ CallCancelReservationTool
    \/ CallCheckAvailability
    \/ CallBookReservation
    \/ CallGetReservation
    \/ CallUpdateReservation
    \/ CallCancelReservation
    \/ Return

Spec == Init /\ [][Next]_vars

-----------------------------------------------------------------------------
(* agent.py: RestaurantBookingAgent, the /chat endpoint and main           *)

\* /chat exchanges are followed up to this number
MaxChats == 3

\* os.getenv("GOOGLE_API_KEY"): None when the variable is not set
EnvValues == {None, StrV(<<>>), StrV(<<"test-key">>)}

\* a slip: the agent is built whether or not the key is there
RestaurantBookingAgent_without_key_check(kwargs, google_api_key) ==
    IF kwargs # {}
    THEN ERaise(Exc("TypeError",
            <<"RestaurantBookingAgent.__init__() got an unexpected keyword argument '",
              CHOOSE k \in kwargs : TRUE, "'">>))
    ELSE EOk([t |-> "agent", s |-> google_api_key.s, n |-> 0])

\* RestaurantBookingAgent(**kwargs) where GOOGLE_API_KEY is google_api_key;
\* def __init__(self) takes no argument, so any keyword is a TypeError of the call
RestaurantBookingAgent(kwargs, google_api_key) ==
    IF kwargs # {}
    THEN ERaise(Exc("TypeError",
            <<"RestaurantBookingAgent.__init__() got an unexpected keyword argument '",
              CHOOSE k \in kwargs : TRUE, "'">>))
    ELSE IF ~Truthy(google_api_key)
    THEN ERaise(Exc("ValueError",
            <<"Google API key is required. Set GOOGLE_API_KEY environment variable or pass it to the constructor.">>))
    ELSE EOk([t |-> "agent", s |-> google_api_key.s, n |-> 0])

\* the way a start of the process ended
Exited(code, exc, printed) == [code |-> code, exc |-> exc, printed |-> printed]

\* main(): the agent is built with the keyword google_api_key; a ValueError is
\* printed and ends the process with status 1, any other exception leaves main
\* (traceback, status 1); otherwise uvicorn.run serves the app
main(args, google_api_key) ==
    LET agent == RestaurantBookingAgent({"google_api_key"}, google_api_key) IN
    IF agent.ok THEN [server |-> "serving", exit |-> NoStart]
    ELSE IF agent.exc.type = "ValueError"
    THEN [server |-> "exited", exit |-> Exited(1, NoExc, <<"Error: ">> \o agent.exc.msg)]
    ELSE [server |-> "exited", exit |-> Exited(1, agent.exc, <<>>)]

\* the values of --google-api-key
MainArgs == {None, StrV(<<"cli-key">>)}

SystemPrompt == "You are a helpful restaurant booking assistant powered by Google Gemini. ..."

\* a message of a conversation
Msg(role, content) == [role |-> role, content |-> content]

\* the chat_history argument of chat(): None by default
NoHistory == [given |-> FALSE, turns |-> <<>>]

\* chat_history or []
or_empty(chat_history) ==
    IF chat_history.given /\ chat_history.turns # <<>> THEN chat_history.turns ELSE <<>>

\* the messages ChatPromptTemplate makes of input_data when a run starts: the
\* system prompt, the chat_history, the human input (the scratchpad is empty)
prompt(input_data) ==
    <<Msg("system", <<SystemPrompt>>)>> \o input_data.chat_history
        \o <<Msg("human", input_data.input)>>

\* RestaurantBookingAgent.chat, a being the outcome of agent_executor.ainvoke
chat(message, chat_history, a) ==
    LET input_data == [input |-> message, chat_history |-> or_empty(chat_history)] IN
    [input_data |-> input_data,
     ret |-> IF a.ok
             THEN EOk(StrV(dict_get(a.v, "output",
                        <<"I'm sorry, I couldn't process your request.">>)))
             ELSE EOk(StrV(<<"I encountered an error while processing your request: ">>
                        \o a.exc.msg))]

ChatResponse(response, success, error) ==
    [response |-> response, success |-> success, error |-> error]

\* a slip: the message of the exchange before is handed on as chat_history
chat_endpoint_with_history(request, a) ==
    LET before == IF chats = <<>> THEN <<>>
                  ELSE <<Msg("human", chats[Len(chats)].message)>>
        r == chat(request.message, [given |-> TRUE, turns |-> before], a) IN
    [input_data |-> r.input_data,
     response |-> IF r.ret.ok THEN ChatResponse(r.ret.v.s, TRUE, None)
                  ELSE ChatResponse(<<>>, FALSE, StrV(r.ret.exc.msg))]

\* POST /chat
chat_endpoint(request, a) ==
    LET r == chat(request.message, NoHistory, a) IN
    [input_data |-> r.input_data,
     response |-> IF r.ret.ok THEN ChatResponse(r.ret.v.s, TRUE, None)
                  ELSE ChatResponse(<<>>, FALSE, StrV(r.ret.exc.msg))]

\* what the users write
Messages == {<<"Hello">>, <<"A table for 4 tomorrow">>}

\* what agent_executor.ainvoke answers or raises
AgentOutcomes ==
    {EOk(JDict(<<"output", "Hi!">>)), EOk(JDict(<<"output", "Booked.">>)),
     EOk(JDict(<<"input", "Hello">>)),
     ERaise(Exc("RuntimeError", <<"429 quota exceeded">>))}

AgentInit ==
    /\ pc = "idle"
    /\ call = Idle
    /\ result = EOk(None)
    /\ sent = <<>>
    /\ py311 = TRUE
    /\ env \in EnvValues
    /\ server = "start"
    /\ exit = NoStart
    /\ chats = <<>>

\* agent = RestaurantBookingAgent(); app = create_fastapi_app(agent)
Construct ==
    /\ server = "start"
    /\ LET agent == RestaurantBookingAgent({}, env) IN
       IF agent.ok
       THEN server' = "app" /\ exit' = NoStart
       ELSE server' = "failed" /\ exit' = Exited(0, agent.exc, <<>>)
    /\ UNCHANGED <<env, chats>>
    /\ UNCHANGED toolVars

\* python agent.py [--google-api-key KEY]
Main ==
    /\ server = "start"
    /\ \E args \in MainArgs :
        LET m == main(args, env) IN
        /\ server' = m.server
        /\ exit' = m.exit
    /\ UNCHANGED <<env, chats>>
    /\ UNCHANGED toolVars

\* one completed exchange on /chat
Chat ==
    /\ server \in {"app", "serving"}
    /\ Len(chats) < MaxChats
    /\ \E message \in Messages, a \in AgentOutcomes :
        LET r == chat_endpoint([message |-> message], a) IN
        chats' = Append(chats, [message |-> message, agent |-> a,
                                prompt |-> prompt(r.input_data), response |-> r.response])
    /\ UNCHANGED <<env, server, exit>>
    /\ UNCHANGED toolVars

AgentNext ==
    \/ Construct
    \/ Main
    \/ Chat

AgentSpec == AgentInit /\ [][AgentNext]_vars

-----------------------------------------------------------------------------
(* Vocabulary of the properties                                            *)

LTools ==
    {"check_availability_tool", "book_reservation_tool", "get_reservation_tool",
     "update_reservation_tool", "cancel_reservation_tool"}
RTools ==
    {"check_availability", "book_reservation", "get_reservation", "update_reservation",
     "cancel_reservation"}
Adapters == LTools \cup RTools

\* the required fields of each operation (spec section 4.2)
Required(fn) ==
    CASE fn \in {"check_availability_tool", "check_availability"} ->
            {"restaurant_name", "visit_date", "party_size"}
      [] fn \in {"book_reservation_tool", "book_reservation"} ->
            {"restaurant_name", "visit_date", "visit_time", "party_size"}
      [] fn \in {"cancel_reservation_tool", "cancel_reservation"} ->
            {"restaurant_name", "booking_reference", "cancellation_reason_id"}
      [] OTHER -> {"restaurant_name", "booking_reference"}

\* an adapter call has returned to its caller
Done(fns) == pc = "returned" /\ call.fn \in fns

\* the call returned a result carrying an error
ReturnedError ==
    /\ result.ok
    /\ \/ result.v.t = "errdict"
       \/ result.v.t = "dict" /\ HasKey(result.v, "error")

\* the call returned exactly {"error": text}
ReturnedErrorText(text) == result = EOk(ErrorDict(text))

\* the function body of an adapter, before any exception handling
Body(fn, args, h) ==
    CASE fn = "check_availability_tool" -> check_availability_tool_body(args, h)
      [] fn = "book_reservation_tool" -> book_reservation_tool_body(args, h)
      [] fn = "get_reservation_tool" -> get_reservation_tool_body(args, h)
      [] fn = "update_reservation_tool" -> update_reservation_tool_body(args, h)
      [] fn = "cancel_reservation_tool" -> cancel_reservation_tool_body(args, h)
      [] fn = "check_availability" -> check_availability_body(args, h)
      [] fn = "book_reservation" -> book_reservation_body(args, h)
      [] fn = "get_reservation" -> get_reservation_body(args, h)
      [] fn = "update_reservation" -> update_reservation_body(args, h)
      [] fn = "cancel_reservation" -> cancel_reservation_body(args, h)

-----------------------------------------------------------------------------
(* C1 .. C10                                                               *)

\* a call with well-formed arguments, for each operation
Nominal(fn) ==
    CASE fn \in {"check_availability_tool", "check_availability"} -> NominalCheck
      [] fn \in {"book_reservation_tool", "book_reservation"} -> NominalBook
      [] fn \in {"cancel_reservation_tool", "cancel_reservation"} -> NominalCancel
      [] OTHER -> NominalGet

\* one required field is absent or None, the others are well-formed
OneRequiredMissing(fn, args) ==
    \E k \in Required(fn) :
        /\ args[k] \in {Absent, None}
        /\ \A j \in Required(fn) \ {k} : args[j] = Nominal(fn)[j]

\* C1: a call of any of the five operations in which one required field is
\* absent or None returns a result carrying an error and issues no HTTP request.
C1_MissingRequiredRejected ==
    (Done(Adapters) /\ OneRequiredMissing(call.fn, call.args))
        => (ReturnedError /\ sent = <<>>)

\* texts and values that denote no date, no time of day, no number, no reason 1..5
NotADate == {SlashDate, NoSuchDay}
NotATime == {NoSuchHour, Noon}
NotANumber == {Abc}
NotAReason == {Abc, StrV(<<"6">>)} \cup {IntV(n) : n \in (-1..MaxInt) \ (1..5)}

UnparsableRequired(fn, args) ==
    /\ \A k \in Required(fn) : args[k] \notin {Absent, None}
    /\ \/ "visit_date" \in Required(fn) /\ args.visit_date \in NotADate
       \/ "visit_time" \in Required(fn) /\ args.visit_time \in NotATime
       \/ "party_size" \in Required(fn) /\ args.party_size \in NotANumber
       \/ "cancellation_reason_id" \in Required(fn)
            /\ args.cancellation_reason_id \in NotAReason

\* C2: a call that supplies its required fields and whose date is no valid date, whose time is no valid time, whose
\* party size is not numeric or whose cancellation reason is not numeric or not
\* in 1..5 returns an error result and issues no HTTP request.
C2_NoRequestBeforeParse ==
    (Done(Adapters) /\ UnparsableRequired(call.fn, call.args))
        => (ReturnedError /\ sent = <<>>)

\* C3: every call of an adapter returns a result; no exception escapes the
\* wrapper, whatever the arguments and whatever the outcome of the HTTP call.
C3_NoExceptionEscapes == Done(Adapters) => result.ok

\* the HTTP call was made and failed with a 4xx/5xx response
HttpFailed == sent # <<>> /\ call.h.kind = "response" /\ call.h.status \in 400..599

\* the detail field of the JSON bodies that have one
DetailOf(body) == IF body = BodyDetail THEN <<"not found">> ELSE <<"gone">>

\* C4: when the HTTP call fails with status s and a JSON body whose detail field
\* is d, the operation returns exactly {error: "API Error (s): d"}.
C4_ApiErrorText ==
    (Done(Adapters) /\ HttpFailed /\ call.h.body \in {BodyDetail, BodyDetail2})
        => ReturnedErrorText(<<"API Error (">> \o IntText(call.h.status) \o <<"): ">>
                                \o DetailOf(call.h.body))

\* C5: when the HTTP call fails at transport level, the operation returns
\* {error: "Network Error: <message>"}, the message being the exception's message
\* alone, without the name of its type.
C5_NetworkErrorText ==
    (Done(Adapters) /\ sent # <<>> /\ call.h.kind = "transport")
        => /\ ReturnedErrorText(<<"Network Error: ">> \o call.h.msg)
           /\ \A i \in 1..Len(result.v.s) : result.v.s[i] # call.h.etype

\* C6: a failure of an adapter that is neither a validation error nor an HTTP or
\* transport error yields {error: "Unexpected Error: <message>"}: the wrapper alone
\* turns it into text, the adapter's body does not.
C6_UnexpectedErrorText ==
    Done(Adapters) =>
        LET b == Body(call.fn, call.args, call.h).ret IN
        (~b.ok /\ b.exc.type \notin RequestExceptionTypes)
            => ReturnedErrorText(<<"Unexpected Error: ">> \o b.exc.msg)

\* the HTTP call was made and answered 2xx with a JSON body
HttpSucceeded ==
    /\ sent # <<>>
    /\ call.h.kind = "response"
    /\ call.h.status \in 200..299
    /\ call.h.body # BodyHtml

\* C7: when the HTTP call of an adapter succeeds, the result is exactly the
\* decoded JSON body of the response.
C7_PayloadVerbatim ==
    (Done(Adapters) /\ HttpSucceeded) => result = response_json(call.h.body)

\* check_availability for 2025-08-06 against a stub answering {"slots": []}
C7_Witness ==
    /\ Done({"check_availability"})
    /\ call.args = NominalCheck /\ call.h = Resp(200, BodySlots)
    /\ Len(sent) = 1
    /\ result = EOk(JDict(<<"slots", "[]">>))

\* the argument each mutable field of a booking is supplied by
MutableFields ==
    {<<(<<"VisitDate">>), "visit_date">>, <<(<<"VisitTime">>), "visit_time">>,
     <<(<<"PartySize">>), "party_size">>, <<(<<"SpecialRequests">>), "special_requests">>,
     <<(<<"IsLeaveTimeConfirmed">>), "is_leave_time_confirmed">>}

Supplied(args, k) == args[k] \notin {Absent, None}

Updaters == {"update_reservation_tool", "update_reservation"}

\* C8: the PATCH payload of UpdateBooking holds only mutable fields the caller
\* supplied; a call supplying only partySize sends PartySize and nothing else.
C8_OnlySuppliedFields ==
    (Done(Updaters) /\ sent # <<>>) =>
        /\ \A e \in sent[1].data :
                \E f \in MutableFields : f[1] = e[1] /\ Supplied(call.args, f[2])
        /\ call.args = NominalUpdate => sent[1].data = {<<(<<"PartySize">>), IntV(3)>>}

C8_Witness ==
    /\ Done(Updaters)
    /\ call.args = NominalUpdate
    /\ Len(sent) = 1 /\ sent[1].method = "PATCH"
    /\ sent[1].data = {<<(<<"PartySize">>), IntV(3)>>}

\* the integer a value denotes, if it denotes one (a bool counts as 0 or 1)
DenotesInt(v) ==
    \/ v.t \in {"int", "bool"}
    \/ v.t = "float" /\ v.n % 2 = 0
    \/ v.t = "str" /\ py_int(v).ok
Denoted(v) == py_int(v).v.n

\* C9: validate_cancellation_reason returns the integer n exactly when its input
\* denotes an integer n in 1..5, and Invalid (None) otherwise; CancelBooking
\* issues its request only with a cancellationReasonId in 1..5.
C9_ReasonParser ==
    /\ Done({"validate_cancellation_reason"}) =>
            LET v == call.args.value IN
            IF DenotesInt(v) /\ Denoted(v) \in 1..5
            THEN result = EOk(IntV(Denoted(v)))
            ELSE result = EOk(None)
    /\ (Done({"cancel_reservation_tool", "cancel_reservation"}) /\ sent # <<>>) =>
            \E n \in 1..5 : <<(<<"cancellationReasonId">>), IntV(n)>> \in sent[1].data

Validators == {"validate_date", "validate_time"}

\* C10: on every string validate_date returns a date or None and validate_time a
\* time of day or None; neither raises.
C10_DateTimeTotal ==
    (Done(Validators) /\ call.args.value.t = "str") =>
        /\ result.ok
        /\ \/ result.v = None
           \/ call.fn = "validate_date" /\ result.v.t = "date"
           \/ call.fn = "validate_time" /\ result.v.t = "time"

C10_Witness ==
    /\ Done({"validate_date"})
    /\ call.args.value = SlashDate
    /\ result = EOk(None)

-----------------------------------------------------------------------------
(* C11 .. C20                                                              *)

Parsers ==
    {"validate_date", "validate_time", "validate_party_size",
     "validate_cancellation_reason", "parse_boolean"}

\* the type of the value each parser yields
TypeOf(fn) ==
    CASE fn = "validate_date" -> "date"
      [] fn = "validate_time" -> "time"
      [] fn = "parse_boolean" -> "bool"
      [] OTHER -> "int"

\* C11: every value parser is total over the values a tool call can carry, None
\* and values of the wrong type included: it never raises and returns a typed
\* value or the Invalid marker (None).
C11_ParsersTotal ==
    Done(Parsers) =>
        /\ result.ok
        /\ result.v = None \/ result.v.t = TypeOf(call.fn)

\* C12: parse_boolean returns a native boolean unchanged; for a text it returns
\* true exactly when the text, compared without regard to case, is one of "true",
\* "1", "yes", "on", and false for every other text.
C12_ParseBoolean ==
    Done({"parse_boolean"}) =>
        LET v == call.args.value IN
        /\ v.t = "bool" => result = EOk(v)
        /\ v.t = "str" =>
                result = EOk(BoolV(lower(v.s) \in
                    {<<"t", "r", "u", "e">>, <<"1">>, <<"y", "e", "s">>, <<"o", "n">>}))

\* parse_boolean("On") is true
C12_Witness ==
    /\ Done({"parse_boolean"})
    /\ call.args.value = StrV(<<"O", "n">>)
    /\ result = EOk(BoolV(TRUE))

\* the turns n completed exchanges make up: user1, assistant1, user2, ...
RECURSIVE Turns(_)
Turns(cs) ==
    IF cs = <<>> THEN <<>>
    ELSE Turns(SubSeq(cs, 1, Len(cs) - 1))
            \o <<Msg("human", cs[Len(cs)].message),
                 Msg("ai", cs[Len(cs)].response.response)>>

SystemTurn == Msg("system", <<SystemPrompt>>)

\* the history of the conversation as the process holds it: what the agent was
\* given on the last call, and its reply
SessionHistory ==
    IF chats = <<>> THEN <<SystemTurn>>
    ELSE chats[Len(chats)].prompt
            \o <<Msg("ai", chats[Len(chats)].response.response)>>

\* C13: after n completed /chat exchanges the history is the system turn followed
\* by the n (user, assistant) pairs in the order sent, 2n+1 turns, and on each
\* call the agent is given the full history up to the user's new message.
C13_HistoryKept ==
    /\ SessionHistory = <<SystemTurn>> \o Turns(chats)
    /\ Len(SessionHistory) = 2 * Len(chats) + 1
    /\ \A i \in 1..Len(chats) :
            chats[i].prompt = <<SystemTurn>> \o Turns(SubSeq(chats, 1, i - 1))
                                \o <<Msg("human", chats[i].message)>>

IsPrefix(a, b) == Len(a) <= Len(b) /\ SubSeq(b, 1, Len(a)) = a

\* C14: a history only grows: at every step the earlier history is a prefix of
\* the later one (no turn is removed, reordered or changed).
C14_HistoryOnlyGrows == [][IsPrefix(SessionHistory, SessionHistory')]_vars

\* the text holds the piece
Holds(text, piece) == \E i \in 1..Len(text) : text[i] = piece

\* C15: when the agent invocation raises during a /chat turn, the endpoint's
\* answer reports a failure, not a successful reply, and holds neither the
\* exception's message nor other internals.
C15_FailureNotLeaked ==
    \A i \in 1..Len(chats) :
        ~chats[i].agent.ok =>
            /\ ~chats[i].response.success
            /\ \A j \in 1..Len(chats[i].agent.exc.msg) :
                /\ ~Holds(chats[i].response.response, chats[i].agent.exc.msg[j])
                /\ ~Holds(chats[i].response.error.s, chats[i].agent.exc.msg[j])

\* C20: when GOOGLE_API_KEY is absent, the start is fatal: building the agent
\* fails and main never gets to serve.
C20_NoKeyNoServer ==
    (env = None /\ server # "start") =>
        /\ server \in {"failed", "exited"}
        /\ exit.exc # NoExc \/ exit.code # 0
        /\ chats = <<>>

\* RestaurantBookingAgent() without the key: ValueError
C20_Witness ==
    /\ env = None
    /\ server = "failed"
    /\ exit.exc.type = "ValueError"

\* a call with well-formed arguments, for each adapter
NominalArgs(fn) ==
    CASE fn \in {"check_availability_tool", "check_availability"} -> NominalCheck
      [] fn \in {"book_reservation_tool", "book_reservation"} -> NominalBook
      [] fn \in {"update_reservation_tool", "update_reservation"} -> NominalUpdate
      [] fn \in {"cancel_reservation_tool", "cancel_reservation"} -> NominalCancel
      [] OTHER -> NominalGet

\* the adapter's own validation rejected the call: its body returned an error
ValidationFailed ==
    LET b == Body(call.fn, call.args, call.h).ret IN b.ok /\ b.v.t = "errdict"

C17_Non2xxNeverPayload ==
    (Done(Adapters) /\ sent # <<>> /\ call.h.kind = "response"
        /\ call.h.status \notin 200..299)
        => ~(result.ok /\ ~ReturnedError)

\* C18: when the HTTP call fails with a non-2xx response whose body is not JSON,
\* or is JSON without a detail field, the error result carries the status code
\* and the raw text of the body as its detail.
C18_RawBodyDetail ==
    (Done(Adapters) /\ HttpFailed /\ call.h.body \in {BodyHtml, BodySlots})
        => ReturnedErrorText(<<"API Error (">> \o IntText(call.h.status) \o <<"): ">>
                                \o <<call.h.body>>)

\* texts that are not of the form YYYY-MM-DD
NotYMD == {SlashDate, BasicDate}

\* C19: in every adapter a date argument that is not of the form YYYY-MM-DD yields
\* exactly the error "Invalid date: <input>. Use YYYY-MM-DD.".
C19_InvalidDateText ==
    (/\ Done(Adapters)
     /\ call.args.visit_date \in NotYMD
     /\ \A k \in Required(call.fn) \ {"visit_date"} : call.args[k] = NominalArgs(call.fn)[k])
        => ReturnedErrorText(<<"Invalid date: ">> \o call.args.visit_date.s
                                \o <<". Use YYYY-MM-DD.">>)

-----------------------------------------------------------------------------
(* C21 .. C27                                                              *)

Bookers == {"book_reservation_tool", "book_reservation"}

\* the checks of CreateBooking that fail on the arguments
PresenceFails(args) == \E k \in Required("book_reservation") : args[k] \in {Absent, None}
DateFails(args) == args.visit_date \in NotADate
TimeFails(args) == args.visit_time \in NotATime
PartyFails(args) == args.party_size \in NotANumber

FailingChecks(args) ==
    {c \in {"presence", "date", "time", "party"} :
        \/ c = "presence" /\ PresenceFails(args)
        \/ c = "date" /\ DateFails(args)
        \/ c = "time" /\ TimeFails(args)
        \/ c = "party" /\ PartyFails(args)}

\* the first failing check in the order presence, date, time, party size
FirstFailing(args) ==
    IF PresenceFails(args) THEN "presence"
    ELSE IF DateFails(args) THEN "date"
    ELSE IF TimeFails(args) THEN "time"
    ELSE "party"

\* the check an error text reports
ErrorKind(text) ==
    IF text = <<>> THEN "none"
    ELSE IF text[1] = "Missing required parameters: restaurant_name, visit_date, visit_time, party_size" THEN "presence"
    ELSE IF text[Len(text)] = "() missing required positional arguments" THEN "presence"
    ELSE IF text[1] \in {"Invalid date format: ", "Invalid date: "} THEN "date"
    ELSE IF text[1] \in {"Invalid time format: ", "Invalid time: "} THEN "time"
    ELSE IF text[1] = "Invalid party size: " THEN "party"
    ELSE "other"

\* each required argument is missing, well-formed, or fails its parse
InOrderScope(args) ==
    /\ args.restaurant_name \in {Absent, None, GoodName}
    /\ args.visit_date \in {Absent, None, GoodDate} \cup NotADate
    /\ args.visit_time \in {Absent, None, GoodTime} \cup NotATime
    /\ args.party_size \in {Absent, None, IntV(3)} \cup NotANumber

\* C21: CreateBooking validates in the order presence, date, time, party size,
\* boolean: when several arguments are invalid at once, the error returned is the
\* one of the first failing check in that order, and no request is sent.
C21_FirstFailingCheck ==
    (Done(Bookers) /\ InOrderScope(call.args) /\ Cardinality(FailingChecks(call.args)) >= 2)
        => /\ ReturnedError
           /\ result.v.t = "errdict"
           /\ ErrorKind(result.v.s) = FirstFailing(call.args)
           /\ sent = <<>>

\* the name of the customer-profile field an argument of fn supplies
CustomerField(fn, k) ==
    IF fn = "book_reservation_tool" THEN k
    ELSE (CHOOSE a \in TextCustomerArgs \cup FlagCustomerArgs : a[1] = k)[2]

\* the customer-profile fields the caller gave, with their values
GivenCustomer ==
    IF call.args.customer_data.t = "dict"
    THEN {<<CustomerField(call.fn, e[1]), e[2]>> : e \in call.args.customer_data.items}
    ELSE {}

\* the customer keys of the payload, with their values
SentCustomer == {<<e[1][2], e[2]>> : e \in {x \in sent[1].data : x[1][1] = "Customer["}}

HasField(data, k) == \E e \in data : e[1] = <<k>>

\* C23: every optional field UpdateBooking is given with a value that parses
\* appears in the PATCH payload with that value, a party size of 0, an empty
\* special-requests text and a false isLeaveTimeConfirmed included.
C23_NoSuppliedFieldDropped ==
    (Done(Updaters) /\ sent # <<>>) =>
        LET a == call.args
            data == sent[1].data IN
        /\ a.visit_date = GoodDate => HasField(data, "VisitDate")
        /\ a.visit_time = GoodTime => HasField(data, "VisitTime")
        /\ a.party_size.t = "int" => <<(<<"PartySize">>), a.party_size>> \in data
        /\ a.special_requests.t = "str" =>
                <<(<<"SpecialRequests">>), a.special_requests>> \in data
        /\ a.is_leave_time_confirmed.t = "bool" =>
                <<(<<"IsLeaveTimeConfirmed">>), a.is_leave_time_confirmed>> \in data

\* C24: the boolean conversion book_reservation_tool and update_reservation_tool
\* apply to is_leave_time_confirmed agrees with parse_boolean: the flag they send
\* is parse_boolean's result for the value given ("on" in any case included).
C24_BooleanAgrees ==
    (/\ Done({"book_reservation_tool", "update_reservation_tool"})
     /\ sent # <<>>
     /\ call.args.is_leave_time_confirmed.t \in {"str", "bool"})
        => <<(<<"IsLeaveTimeConfirmed">>), parse_boolean(call.args.is_leave_time_confirmed).v>>
                \in sent[1].data

\* C25: no adapter sends a request whose PartySize is zero or negative: a party
\* size that is accepted is a positive integer, as validate_party_size requires.
C25_PartySizePositive ==
    (Done(Adapters) /\ sent # <<>>) =>
        \A e \in sent[1].data :
            e[1] = <<"PartySize">> => (e[2].t = "int" /\ e[2].n > 0)

\* C26: /chat is stateless: on every request the agent is invoked with an empty
\* chat_history and the current message alone, so what it is given for a message
\* does not depend on any earlier request.
C26_ChatStateless ==
    \A i \in 1..Len(chats) :
        /\ chats[i].prompt = <<SystemTurn, Msg("human", chats[i].message)>>
        /\ \A j \in 1..Len(chats) :
                chats[j].message = chats[i].message => chats[j].prompt = chats[i].prompt

\* a second request, with another message than the first
C26_Witness ==
    /\ Len(chats) = 2
    /\ chats[1].message # chats[2].message
    /\ chats[2].prompt = <<SystemTurn, Msg("human", chats[2].message)>>

\* C27: when GOOGLE_API_KEY is present, main() builds the agent and gets to the
\* state in which the HTTP server is started.
C27_MainServes ==
    (Truthy(env) /\ server \in {"serving", "exited"})
        => (server = "serving" /\ exit = NoStart)

====
